---- MODULE Spec2Model ----
(***************************************************************************)
(* Model of the 1inch-fusion-stellar JavaScript client scripts:            *)
(*   - the escrow phase determination (three copies of                     *)
(*     determineEscrowPhase) driven by the query scripts' main(), and      *)
(*   - the EscrowSrc deployment / funding / verification run of the        *)
(*     deployment script (Step 5 of the order script).                     *)
(*   - the event query of query-escrow-events.js.                          *)
(* The specifications of the module: Spec (phase queries), DeploySpec (one *)
(* run of the deployment script), AttemptsSpec (a run of the deployment    *)
(* script beside another run for the same leg) and EventsSpec (event       *)
(* queries against a chain that emits escrow events).                      *)
(***************************************************************************)
EXTENDS Integers, Sequences, FiniteSets, TLC

VARIABLES
    immutables,     \* the immutables object handed to determineEscrowPhase
    currentTime,    \* contractState.currentTime: timestamp of the latest block
    phaseInfo,      \* result of the most recent phase determination ({} before)
    earlierTime,    \* block time of the phase determination before that one
    earlierInfo,    \* its result ({} when there was none)
    pc,             \* position of the deployment script
    amount,         \* escrowImmutables.amount (wei, scaled)
    safetyDeposit,  \* escrowImmutables.safetyDeposit
    escrowImmutables, \* the immutables built in Step 5 ({} before)
    escrowDeployment, \* the deployment record ({} before it is created)
    contractAddress,  \* const contractAddress of the inner try (None before)
    fundingError,     \* message of the caught fundingError (empty when none)
    deployedRescueDelay, \* value read back from RESCUE_DELAY() (0 before)
    contractBalance,  \* value read by provider.getBalance(contractAddress)
    chain,          \* the chain: deployed contract, its balance, pending txs
    txLog,          \* every transaction the script submitted, in order
    otherAttempt,   \* what another run of the script for the same leg has
                    \* reached ({} when there is no other run)
    chainEvents,    \* the events the escrow contract has emitted, in order
    currentBlock,   \* provider.getBlockNumber() of the latest event query
    events,         \* what queryContractEvents returned ({} before)
    env,            \* process.env of the order script
    orderData,      \* the order record the script holds ({} before)
    orderFile,      \* the order-<timestamp>.json file
    loadedOrder     \* what loadOrderData returned (undefined before)

phaseVars == <<immutables, currentTime, phaseInfo, earlierTime, earlierInfo>>
deployVars == <<pc, amount, safetyDeposit, escrowImmutables, escrowDeployment,
                contractAddress, fundingError, deployedRescueDelay,
                contractBalance, chain, txLog>>
eventVars == <<chainEvents, currentBlock, events>>
orderVars == <<env, orderData, orderFile, loadedOrder>>
vars == <<immutables, currentTime, phaseInfo, earlierTime, earlierInfo,
          pc, amount, safetyDeposit, escrowImmutables, escrowDeployment,
          contractAddress, fundingError, deployedRescueDelay,
          contractBalance, chain, txLog, otherAttempt,
          chainEvents, currentBlock, events,
          env, orderData, orderFile, loadedOrder>>

(***************************************************************************)
(* Bounds of the model.                                                    *)
(***************************************************************************)
MaxTime == 4          \* arbitrary timelock boundaries range over 0..MaxTime
MaxAmount == 2        \* amount and safetyDeposit range over 1..MaxAmount

(***************************************************************************)
(* JavaScript values.  A field that holds a number in one branch and a     *)
(* string in another is modelled as a tagged value.                        *)
(***************************************************************************)
JSNumber(n) == [kind |-> "number", val |-> n]
JSText(s) == [kind |-> "text", val |-> s]
\* new Date(ms).toISOString(): the ISO-8601 text of the instant ms
toISOString(ms) == [kind |-> "isodate", val |-> ms]
\* the empty object {}
EmptyObject == [k \in {} |-> 0]
\* the value undefined
Undefined == [kind |-> "undefined"]
\* the value null
Null == [kind |-> "null"]
\* the value NaN
NaN == [kind |-> "NaN"]
\* ethers.keccak256(ethers.toUtf8Bytes(text))
keccak256(text) == "keccak256(" \o text \o ")"

(***************************************************************************)
(* PHASES                                                                  *)
(***************************************************************************)
PHASES == [DEPLOYED |-> "DEPLOYED",
           FINALITY |-> "FINALITY",
           PRIVATE_WITHDRAWAL |-> "PRIVATE_WITHDRAWAL",
           PUBLIC_WITHDRAWAL |-> "PUBLIC_WITHDRAWAL",
           PRIVATE_CANCELLATION |-> "PRIVATE_CANCELLATION",
           PUBLIC_CANCELLATION |-> "PUBLIC_CANCELLATION",
           EXPIRED |-> "EXPIRED"]

(***************************************************************************)
(* determineEscrowPhase, copy of query-escrow-enhanced.js                  *)
(***************************************************************************)
determineEscrowPhaseEnhanced(imm, now) ==
    LET timelocks == imm.timelocks IN
    IF now < timelocks.srcWithdrawal THEN
        [phase |-> PHASES.FINALITY,
         description |-> "Contract is in finality period - no actions allowed",
         timeRemaining |-> JSNumber(timelocks.srcWithdrawal - now),
         nextPhase |-> PHASES.PRIVATE_WITHDRAWAL,
         nextPhaseTime |-> toISOString(timelocks.srcWithdrawal * 1000),
         allowedActions |-> <<"None - waiting for finality">>]
    ELSE IF now < timelocks.srcPublicWithdrawal THEN
        [phase |-> PHASES.PRIVATE_WITHDRAWAL,
         description |-> "Private withdrawal period - maker can withdraw with secret",
         timeRemaining |-> JSNumber(timelocks.srcPublicWithdrawal - now),
         nextPhase |-> PHASES.PUBLIC_WITHDRAWAL,
         nextPhaseTime |-> toISOString(timelocks.srcPublicWithdrawal * 1000),
         allowedActions |-> <<"Maker withdraw with secret", "Taker withdraw with secret">>]
    ELSE IF now < timelocks.srcCancellation THEN
        [phase |-> PHASES.PUBLIC_WITHDRAWAL,
         description |-> "Public withdrawal period - anyone can withdraw with secret",
         timeRemaining |-> JSNumber(timelocks.srcCancellation - now),
         nextPhase |-> PHASES.PRIVATE_CANCELLATION,
         nextPhaseTime |-> toISOString(timelocks.srcCancellation * 1000),
         allowedActions |-> <<"Anyone withdraw with secret">>]
    ELSE IF now < timelocks.srcPublicCancellation THEN
        [phase |-> PHASES.PRIVATE_CANCELLATION,
         description |-> "Private cancellation period - maker can cancel",
         timeRemaining |-> JSNumber(timelocks.srcPublicCancellation - now),
         nextPhase |-> PHASES.PUBLIC_CANCELLATION,
         nextPhaseTime |-> toISOString(timelocks.srcPublicCancellation * 1000),
         allowedActions |-> <<"Maker cancel", "Anyone withdraw with secret">>]
    ELSE
        [phase |-> PHASES.PUBLIC_CANCELLATION,
         description |-> "Public cancellation period - anyone can cancel",
         timeRemaining |-> JSText("No time limit"),
         nextPhase |-> PHASES.EXPIRED,
         nextPhaseTime |-> JSText("N/A"),
         allowedActions |-> <<"Anyone cancel", "Anyone withdraw with secret">>]

(***************************************************************************)
(* determineEscrowPhase, copy of the basic query script: it returns no     *)
(* allowedActions field.                                                   *)
(***************************************************************************)
determineEscrowPhaseBasic(imm, now) ==
    LET timelocks == imm.timelocks IN
    IF now < timelocks.srcWithdrawal THEN
        [phase |-> PHASES.FINALITY,
         description |-> "Contract is in finality period - no actions allowed",
         timeRemaining |-> JSNumber(timelocks.srcWithdrawal - now),
         nextPhase |-> PHASES.PRIVATE_WITHDRAWAL,
         nextPhaseTime |-> toISOString(timelocks.srcWithdrawal * 1000)]
    ELSE IF now < timelocks.srcPublicWithdrawal THEN
        [phase |-> PHASES.PRIVATE_WITHDRAWAL,
         description |-> "Private withdrawal period - maker can withdraw with secret",
         timeRemaining |-> JSNumber(timelocks.srcPublicWithdrawal - now),
         nextPhase |-> PHASES.PUBLIC_WITHDRAWAL,
         nextPhaseTime |-> toISOString(timelocks.srcPublicWithdrawal * 1000)]
    ELSE IF now < timelocks.srcCancellation THEN
        [phase |-> PHASES.PUBLIC_WITHDRAWAL,
         description |-> "Public withdrawal period - anyone can withdraw with secret",
         timeRemaining |-> JSNumber(timelocks.srcCancellation - now),
         nextPhase |-> PHASES.PRIVATE_CANCELLATION,
         nextPhaseTime |-> toISOString(timelocks.srcCancellation * 1000)]
    ELSE IF now < timelocks.srcPublicCancellation THEN
        [phase |-> PHASES.PRIVATE_CANCELLATION,
         description |-> "Private cancellation period - maker can cancel",
         timeRemaining |-> JSNumber(timelocks.srcPublicCancellation - now),
         nextPhase |-> PHASES.PUBLIC_CANCELLATION,
         nextPhaseTime |-> toISOString(timelocks.srcPublicCancellation * 1000)]
    ELSE
        [phase |-> PHASES.PUBLIC_CANCELLATION,
         description |-> "Public cancellation period - anyone can cancel",
         timeRemaining |-> JSText("No time limit"),
         nextPhase |-> PHASES.EXPIRED,
         nextPhaseTime |-> JSText("N/A")]

(***************************************************************************)
(* Faulty variants of determineEscrowPhase, used to show that the checked  *)
(* properties depend on the function's code.                               *)
(***************************************************************************)
\* the branch structure with another comparison and another boundary order
determineEscrowPhaseVariant(now, Lt(_, _), b0, b1, b2, b3) ==
    IF Lt(now, b0) THEN
        [phase |-> PHASES.FINALITY,
         description |-> "Contract is in finality period - no actions allowed",
         timeRemaining |-> JSNumber(b0 - now),
         nextPhase |-> PHASES.PRIVATE_WITHDRAWAL,
         nextPhaseTime |-> toISOString(b0 * 1000),
         allowedActions |-> <<"None - waiting for finality">>]
    ELSE IF Lt(now, b1) THEN
        [phase |-> PHASES.PRIVATE_WITHDRAWAL,
         description |-> "Private withdrawal period - maker can withdraw with secret",
         timeRemaining |-> JSNumber(b1 - now),
         nextPhase |-> PHASES.PUBLIC_WITHDRAWAL,
         nextPhaseTime |-> toISOString(b1 * 1000),
         allowedActions |-> <<"Maker withdraw with secret", "Taker withdraw with secret">>]
    ELSE IF Lt(now, b2) THEN
        [phase |-> PHASES.PUBLIC_WITHDRAWAL,
         description |-> "Public withdrawal period - anyone can withdraw with secret",
         timeRemaining |-> JSNumber(b2 - now),
         nextPhase |-> PHASES.PRIVATE_CANCELLATION,
         nextPhaseTime |-> toISOString(b2 * 1000),
         allowedActions |-> <<"Anyone withdraw with secret">>]
    ELSE IF Lt(now, b3) THEN
        [phase |-> PHASES.PRIVATE_CANCELLATION,
         description |-> "Private cancellation period - maker can cancel",
         timeRemaining |-> JSNumber(b3 - now),
         nextPhase |-> PHASES.PUBLIC_CANCELLATION,
         nextPhaseTime |-> toISOString(b3 * 1000),
         allowedActions |-> <<"Maker cancel", "Anyone withdraw with secret">>]
    ELSE
        [phase |-> PHASES.PUBLIC_CANCELLATION,
         description |-> "Public cancellation period - anyone can cancel",
         timeRemaining |-> JSText("No time limit"),
         nextPhase |-> PHASES.EXPIRED,
         nextPhaseTime |-> JSText("N/A"),
         allowedActions |-> <<"Anyone cancel", "Anyone withdraw with secret">>]

\* the private withdrawal window opened to everybody
determineEscrowPhase_PublicInPrivate(imm, now) ==
    LET r == determineEscrowPhaseEnhanced(imm, now) IN
    IF r.phase = PHASES.PRIVATE_WITHDRAWAL
    THEN [r EXCEPT !.allowedActions = <<"Anyone withdraw with secret">>]
    ELSE r

\* the private cancellation window lets anyone cancel
determineEscrowPhase_AnyoneCancelsEarly(imm, now) ==
    LET r == determineEscrowPhaseEnhanced(imm, now) IN
    IF r.phase = PHASES.PRIVATE_CANCELLATION
    THEN [r EXCEPT !.allowedActions = <<"Anyone cancel", "Anyone withdraw with secret">>]
    ELSE r

\* the finality branch carries the action list of the next branch
determineEscrowPhase_ActionsInFinality(imm, now) ==
    LET r == determineEscrowPhaseEnhanced(imm, now) IN
    IF r.phase = PHASES.FINALITY
    THEN [r EXCEPT !.allowedActions = <<"Maker withdraw with secret", "Taker withdraw with secret">>]
    ELSE r

\* the first two boundaries tested in the wrong order
determineEscrowPhase_SwappedBoundaries(imm, now) ==
    determineEscrowPhaseVariant(now, LAMBDA a, b : a < b,
        imm.timelocks.srcPublicWithdrawal, imm.timelocks.srcWithdrawal,
        imm.timelocks.srcCancellation, imm.timelocks.srcPublicCancellation)

\* the terminal phase reports a number of seconds
determineEscrowPhase_NumericTerminal(imm, now) ==
    LET r == determineEscrowPhaseEnhanced(imm, now) IN
    IF r.phase = PHASES.PUBLIC_CANCELLATION
    THEN [r EXCEPT !.timeRemaining = JSNumber(0)]
    ELSE r

\* boundaries compared with <= instead of <
determineEscrowPhase_Inclusive(imm, now) ==
    determineEscrowPhaseVariant(now, LAMBDA a, b : a <= b,
        imm.timelocks.srcWithdrawal, imm.timelocks.srcPublicWithdrawal,
        imm.timelocks.srcCancellation, imm.timelocks.srcPublicCancellation)

\* boundaries compared with > instead of <
determineEscrowPhase_Reversed(imm, now) ==
    determineEscrowPhaseVariant(now, LAMBDA a, b : a > b,
        imm.timelocks.srcWithdrawal, imm.timelocks.srcPublicWithdrawal,
        imm.timelocks.srcCancellation, imm.timelocks.srcPublicCancellation)

\* the operands of the timeRemaining subtraction exchanged
determineEscrowPhase_NegatedRemaining(imm, now) ==
    LET r == determineEscrowPhaseEnhanced(imm, now) IN
    IF r.timeRemaining.kind = "number"
    THEN [r EXCEPT !.timeRemaining = JSNumber(0 - r.timeRemaining.val)]
    ELSE r

(***************************************************************************)
(* determineEscrowPhase, copy of query-escrow-events.js                    *)
(***************************************************************************)
\* the terminal branch labelled with the last name of PHASES
determineEscrowPhase_ExpiredPhase(imm, now) ==
    LET r == determineEscrowPhaseEnhanced(imm, now) IN
    IF r.phase = PHASES.PUBLIC_CANCELLATION
    THEN [r EXCEPT !.phase = PHASES.EXPIRED]
    ELSE r

\* the second boundary read from the destination leg when it is there
determineEscrowPhase_DestinationBoundary(imm, now) ==
    determineEscrowPhaseVariant(now, LAMBDA a, b : a < b,
        imm.timelocks.srcWithdrawal,
        IF "dstPublicWithdrawal" \in DOMAIN imm.timelocks
        THEN imm.timelocks.dstPublicWithdrawal
        ELSE imm.timelocks.srcPublicWithdrawal,
        imm.timelocks.srcCancellation, imm.timelocks.srcPublicCancellation)

\* one copy formats the next phase time from seconds, not milliseconds
determineEscrowPhase_SecondsAsMillis(imm, now) ==
    LET r == determineEscrowPhaseEnhanced(imm, now) IN
    IF r.phase = PHASES.FINALITY
    THEN [r EXCEPT !.nextPhaseTime = toISOString(imm.timelocks.srcWithdrawal)]
    ELSE r

\* each boundary clamped to the later ones before the comparisons
determineEscrowPhase_ClampedBoundaries(imm, now) ==
    LET Least(S) == CHOOSE x \in S : \A y \in S : x <= y
        t == imm.timelocks
    IN determineEscrowPhaseVariant(now, LAMBDA a, b : a < b,
          Least({t.srcWithdrawal, t.srcPublicWithdrawal,
                 t.srcCancellation, t.srcPublicCancellation}),
          Least({t.srcPublicWithdrawal, t.srcCancellation,
                 t.srcPublicCancellation}),
          Least({t.srcCancellation, t.srcPublicCancellation}),
          t.srcPublicCancellation)

determineEscrowPhase(imm, now) ==
    LET timelocks == imm.timelocks IN
    IF now < timelocks.srcWithdrawal THEN
        [phase |-> PHASES.FINALITY,
         description |-> "Contract is in finality period - no actions allowed",
         timeRemaining |-> JSNumber(timelocks.srcWithdrawal - now),
         nextPhase |-> PHASES.PRIVATE_WITHDRAWAL,
         nextPhaseTime |-> toISOString(timelocks.srcWithdrawal * 1000),
         allowedActions |-> <<"None - waiting for finality">>]
    ELSE IF now < timelocks.srcPublicWithdrawal THEN
        [phase |-> PHASES.PRIVATE_WITHDRAWAL,
         description |-> "Private withdrawal period - maker can withdraw with secret",
         timeRemaining |-> JSNumber(timelocks.srcPublicWithdrawal - now),
         nextPhase |-> PHASES.PUBLIC_WITHDRAWAL,
         nextPhaseTime |-> toISOString(timelocks.srcPublicWithdrawal * 1000),
         allowedActions |-> <<"Maker withdraw with secret", "Taker withdraw with secret">>]
    ELSE IF now < timelocks.srcCancellation THEN
        [phase |-> PHASES.PUBLIC_WITHDRAWAL,
         description |-> "Public withdrawal period - anyone can withdraw with secret",
         timeRemaining |-> JSNumber(timelocks.srcCancellation - now),
         nextPhase |-> PHASES.PRIVATE_CANCELLATION,
         nextPhaseTime |-> toISOString(timelocks.srcCancellation * 1000),
         allowedActions |-> <<"Anyone withdraw with secret">>]
    ELSE IF now < timelocks.srcPublicCancellation THEN
        [phase |-> PHASES.PRIVATE_CANCELLATION,
         description |-> "Private cancellation period - maker can cancel",
         timeRemaining |-> JSNumber(timelocks.srcPublicCancellation - now),
         nextPhase |-> PHASES.PUBLIC_CANCELLATION,
         nextPhaseTime |-> toISOString(timelocks.srcPublicCancellation * 1000),
         allowedActions |-> <<"Maker cancel", "Anyone withdraw with secret">>]
    ELSE
        [phase |-> PHASES.PUBLIC_CANCELLATION,
         description |-> "Public cancellation period - anyone can cancel",
         timeRemaining |-> JSText("No time limit"),
         nextPhase |-> PHASES.EXPIRED,
         nextPhaseTime |-> JSText("N/A"),
         allowedActions |-> <<"Anyone cancel", "Anyone withdraw with secret">>]

(***************************************************************************)
(* Timelock sets handed to the phase function.                             *)
(***************************************************************************)
\* offsets (seconds after "now") of the timelocks the scripts build
SrcWithdrawalOffset == 60
SrcPublicWithdrawalOffset == 120
SrcCancellationOffset == 300
SrcPublicCancellationOffset == 600

\* the mock immutables of the query scripts' main(): Date.now()/1000 + offset
mockImmutables(dateNow) ==
    [timelocks |->
        [srcWithdrawal |-> dateNow + SrcWithdrawalOffset,
         srcPublicWithdrawal |-> dateNow + SrcPublicWithdrawalOffset,
         srcCancellation |-> dateNow + SrcCancellationOffset,
         srcPublicCancellation |-> dateNow + SrcPublicCancellationOffset]]

\* Math.floor(Date.now() / 1000) at the moment the timelocks are built
DateNowValues == {1000}

\* any object with four numeric boundaries may be passed to the exported
\* function (order file content, other callers): no ordering is enforced
ArbitraryImmutables ==
    { [timelocks |->
          [srcWithdrawal |-> a, srcPublicWithdrawal |-> b,
           srcCancellation |-> c, srcPublicCancellation |-> d]] :
      a \in 0..MaxTime, b \in 0..MaxTime, c \in 0..MaxTime, d \in 0..MaxTime }

BuiltImmutables == { mockImmutables(n) : n \in DateNowValues }

\* parseEther(makingAmountEth.toString()) and
\* parseEther(safetyDepositEth.toString()), in scaled units
Amounts == 1..MaxAmount

AddressOfEscrow == "0xEscrowSrc"
DeployerAddress == "0xMaker"

\* escrowImmutables of Step 5, built from Math.floor(Date.now() / 1000)
NewEscrowImmutables(now, amt, dep) ==
    [orderHash |-> keccak256("order.salt"),
     hashlock |-> keccak256("secret"),
     maker |-> DeployerAddress,
     taker |-> "0xTaker",
     token |-> "0x0000000000000000000000000000000000000000",
     amount |-> amt,
     safetyDeposit |-> dep,
     timelocks |->
        [srcWithdrawal |-> now + SrcWithdrawalOffset,
         srcPublicWithdrawal |-> now + SrcPublicWithdrawalOffset,
         srcCancellation |-> now + SrcCancellationOffset,
         srcPublicCancellation |-> now + SrcPublicCancellationOffset,
         dstWithdrawal |-> now + SrcWithdrawalOffset,
         dstPublicWithdrawal |-> now + SrcPublicWithdrawalOffset,
         dstCancellation |-> now + SrcCancellationOffset]]

\* the immutables a deployment run records in escrowDeployment.immutables,
\* which the enhanced query reads back from the order file
DeployedImmutables ==
    { NewEscrowImmutables(n, a, d) :
        n \in DateNowValues, a \in Amounts, d \in Amounts }

\* the timelock offsets of the order (seconds after the deployment epoch)
orderTimeLocks ==
    [srcWithdrawal |-> 10,
     srcPublicWithdrawal |-> 120,
     srcCancellation |-> 121,
     srcPublicCancellation |-> 122,
     dstWithdrawal |-> 10,
     dstPublicWithdrawal |-> 100,
     dstCancellation |-> 101]

\* both legs deployed at the same epoch, time counted from it
OrderImmutables == { [timelocks |-> orderTimeLocks] }

\* block timestamps at which an escrow with the given immutables is queried
BlockTimes(imm) ==
    IF imm \in BuiltImmutables \cup DeployedImmutables
    THEN UNION { {n, n + 59, n + 60, n + 119, n + 120, n + 299, n + 300,
                  n + 599, n + 600, n + 700} : n \in DateNowValues }
    ELSE IF imm \in OrderImmutables
    THEN {0, 9, 10, 100, 101, 119, 120, 121, 122, 130}
    ELSE 0..(MaxTime + 1)

(***************************************************************************)
(* Phase queries: an escrow's immutables are fixed, block time only moves  *)
(* forward, and each query applies one copy of determineEscrowPhase.       *)
(***************************************************************************)
DeployIdle ==
    /\ pc = "idle"
    /\ amount = 0
    /\ safetyDeposit = 0
    /\ escrowImmutables = EmptyObject
    /\ escrowDeployment = EmptyObject
    /\ contractAddress = "None"
    /\ fundingError = <<>>
    /\ deployedRescueDelay = 0
    /\ contractBalance = 0
    /\ chain = EmptyObject
    /\ txLog = <<>>
    /\ otherAttempt = EmptyObject

\* no event query is made
EventsIdle ==
    /\ chainEvents = <<>>
    /\ currentBlock = 0
    /\ events = EmptyObject

\* no order file exists
NoFile == [kind |-> "absent"]

\* process.env without any of the variables the order script reads
EnvUnset ==
    [MAKING_AMOUNT_ETH |-> Undefined,
     TAKING_AMOUNT_XLM |-> Undefined,
     SAFETY_DEPOSIT_ETH |-> Undefined,
     SRC_CHAIN_ID |-> Undefined,
     DST_CHAIN_ID |-> Undefined,
     STELLAR_TAKER_ADDRESS |-> Undefined]

\* no order script runs
OrderIdle ==
    /\ env = EnvUnset
    /\ orderData = EmptyObject
    /\ orderFile = NoFile
    /\ loadedOrder = Undefined

PhaseInit ==
    /\ immutables \in ArbitraryImmutables \cup BuiltImmutables
                        \cup DeployedImmutables \cup OrderImmutables
    /\ currentTime \in BlockTimes(immutables)
    /\ phaseInfo = EmptyObject
    /\ earlierTime = currentTime
    /\ earlierInfo = EmptyObject

Init ==
    /\ PhaseInit
    /\ DeployIdle
    /\ EventsIdle
    /\ OrderIdle

\* a caller of the exported determineEscrowPhase of query-escrow-events.js
CallDetermineEscrowPhase ==
    \E t \in BlockTimes(immutables) :
        /\ t >= currentTime
        /\ currentTime' = t
        /\ phaseInfo' = determineEscrowPhase(immutables, t)
        /\ earlierTime' = currentTime
        /\ earlierInfo' = phaseInfo
        /\ UNCHANGED <<immutables, deployVars, otherAttempt, eventVars, orderVars>>

\* main() of query-escrow-enhanced.js, from the phase determination on
CallDetermineEscrowPhaseEnhanced ==
    \E t \in BlockTimes(immutables) :
        /\ t >= currentTime
        /\ currentTime' = t
        /\ phaseInfo' = determineEscrowPhaseEnhanced(immutables, t)
        /\ earlierTime' = currentTime
        /\ earlierInfo' = phaseInfo
        /\ UNCHANGED <<immutables, deployVars, otherAttempt, eventVars, orderVars>>

\* main() of the basic query script, from the phase determination on
CallDetermineEscrowPhaseBasic ==
    \E t \in BlockTimes(immutables) :
        /\ t >= currentTime
        /\ currentTime' = t
        /\ phaseInfo' = determineEscrowPhaseBasic(immutables, t)
        /\ earlierTime' = currentTime
        /\ earlierInfo' = phaseInfo
        /\ UNCHANGED <<immutables, deployVars, otherAttempt, eventVars, orderVars>>

Next ==
    \/ CallDetermineEscrowPhase
    \/ CallDetermineEscrowPhaseEnhanced
    \/ CallDetermineEscrowPhaseBasic

Spec == Init /\ [][Next]_vars

(***************************************************************************)
(* The deployment script, Step 5: prepare, deploy, fund, verify.           *)
(* Every await of a Chain Gateway call is one step: the call returns one   *)
(* of the values the gateway can produce, or throws.                       *)
(***************************************************************************)
rescueDelay == 1800
DeploymentGasLimit == 5000000
FundingGasLimit == 1000000
AlternativeFundingGasLimit == 2000000

\* strings are sequences of fragments, so that a template string is the
\* concatenation of its parts
Str(s) == <<s>>

\* error.message of an error thrown by a gateway call
ErrorMessages == {Str("request timeout"), Str("execution reverted")}

\* obj.field = value on an object that may not have the field yet
SetField(obj, field, value) == (field :> value) @@ obj
\* obj.field, undefined when the object has no such field
GetField(obj, field) == IF field \in DOMAIN obj THEN obj[field] ELSE "undefined"

\* bigint.toString(): the decimal text of n
toString(n) == [kind |-> "decimal", val |-> n]

\* balances the gateway can report for an address
Balances == 0..(2 * MaxAmount + 1)

\* values the gateway can report for RESCUE_DELAY(): the constructor
\* argument, or a value that diverges from it
DeployedDelays == {rescueDelay, 0}

\* the escrowDeployment record as first created
NewEscrowDeployment(imm) ==
    [contractAddress |-> "TBD",
     deployer |-> DeployerAddress,
     rescueDelay |-> rescueDelay,
     network |-> "Sepolia",
     deploymentStatus |-> "pending",
     deploymentType |-> "direct",
     immutables |-> imm,
     deploymentCost |-> "TBD",
     gasEstimate |-> "TBD"]

\* const totalFundingAmount = escrowImmutables.amount + escrowImmutables.safetyDeposit
totalFundingAmount == escrowImmutables.amount + escrowImmutables.safetyDeposit

\* hash of the transaction submitted last
LastTxHash(log) == Len(log)

PhaseIdle ==
    /\ immutables = EmptyObject
    /\ currentTime = 0
    /\ phaseInfo = EmptyObject
    /\ earlierTime = 0
    /\ earlierInfo = EmptyObject

\* the script is about to enter Step 5
ScriptStart ==
    /\ PhaseIdle
    /\ EventsIdle
    /\ OrderIdle
    /\ pc = "prepare"
    /\ amount \in Amounts
    /\ safetyDeposit \in Amounts
    /\ escrowImmutables = EmptyObject
    /\ escrowDeployment = EmptyObject
    /\ contractAddress = "None"
    /\ fundingError = <<>>
    /\ deployedRescueDelay = 0
    /\ contractBalance = 0
    /\ chain = [code |-> FALSE, rescueDelay |-> 0, funded |-> 0]
    /\ txLog = <<>>

DeployInit ==
    /\ ScriptStart
    /\ otherAttempt = EmptyObject

\* a deployment catch that records the failure but lets the script go on
DeploymentCatch_Continues(message) ==
    /\ escrowDeployment' =
          SetField(SetField(escrowDeployment, "deploymentStatus", "failed"),
                   "deploymentError", message)
    /\ pc' = "sendFunding"

\* a deployment catch that records the error but not the failed status
DeploymentCatch_LeavesPending(message) ==
    /\ escrowDeployment' = SetField(escrowDeployment, "deploymentError", message)
    /\ pc' = "done"

\* catch (error) of the deployment try: the run ends here
DeploymentCatch(message) ==
    /\ escrowDeployment' =
          SetField(SetField(escrowDeployment, "deploymentStatus", "failed"),
                   "deploymentError", message)
    /\ pc' = "done"

\* lines 278-346: read the deployer balance, build immutables and record
PrepareDeployment ==
    /\ pc = "prepare"
    /\ \/ \* provider.getBalance throws: outer catch, nothing was built
          /\ pc' = "done"
          /\ UNCHANGED <<escrowImmutables, escrowDeployment>>
       \/ \E deployerBalance \in Balances, now \in DateNowValues :
             /\ escrowImmutables' = NewEscrowImmutables(now, amount, safetyDeposit)
             /\ escrowDeployment' = NewEscrowDeployment(escrowImmutables')
             /\ pc' = "deploy"
    /\ UNCHANGED <<phaseVars, eventVars, orderVars, otherAttempt, amount, safetyDeposit, contractAddress, fundingError,
                   deployedRescueDelay, contractBalance, chain, txLog>>

\* lines 357-375: contractFactory.deploy(rescueDelay, {gasLimit, gasPrice})
DeployContract ==
    /\ pc = "deploy"
    /\ \/ \E m \in ErrorMessages :
             \* getFeeData or deploy throws: no transaction was submitted
             /\ DeploymentCatch(m)
             /\ UNCHANGED txLog
       \/ /\ txLog' = Append(txLog, [kind |-> "deployment", value |-> 0,
                                     gasLimit |-> DeploymentGasLimit])
          /\ pc' = "waitForDeployment"
          /\ UNCHANGED escrowDeployment
    /\ UNCHANGED <<phaseVars, eventVars, orderVars, otherAttempt, amount, safetyDeposit, escrowImmutables,
                   contractAddress, fundingError, deployedRescueDelay,
                   contractBalance, chain>>

\* lines 377-390: waitForDeployment, getAddress, record the deployment
WaitForDeployment ==
    /\ pc = "waitForDeployment"
    /\ \/ \E m \in ErrorMessages, mined \in BOOLEAN :
             \* the wait throws (revert, timeout); on a timeout the
             \* contract may exist on the chain all the same
             /\ DeploymentCatch(m)
             /\ chain' = IF mined /\ m = Str("request timeout")
                         THEN [chain EXCEPT !.code = TRUE, !.rescueDelay = rescueDelay]
                         ELSE chain
             /\ UNCHANGED contractAddress
       \/ /\ contractAddress' = AddressOfEscrow
          /\ chain' = [chain EXCEPT !.code = TRUE, !.rescueDelay = rescueDelay]
          /\ escrowDeployment' =
                SetField(SetField(SetField(escrowDeployment,
                    "contractAddress", AddressOfEscrow),
                    "deploymentTxHash", LastTxHash(txLog)),
                    "deploymentStatus", "deployed")
          /\ pc' = "checkFundingBalance"
    /\ UNCHANGED <<phaseVars, eventVars, orderVars, otherAttempt, amount, safetyDeposit, escrowImmutables, fundingError,
                   deployedRescueDelay, contractBalance, txLog>>

\* lines 395-410: read the deployer balance again, decide whether to fund
CheckFundingBalance ==
    /\ pc = "checkFundingBalance"
    /\ \/ \E m \in ErrorMessages :
             \* provider.getBalance throws inside the deployment try
             DeploymentCatch(m)
       \/ \E deployerBalanceAfterDeployment \in Balances :
             /\ pc' = IF deployerBalanceAfterDeployment < totalFundingAmount
                      THEN "verifyRescueDelay"
                      ELSE "sendFunding"
             /\ UNCHANGED escrowDeployment
    /\ UNCHANGED <<phaseVars, eventVars, orderVars, otherAttempt, amount, safetyDeposit, escrowImmutables,
                   contractAddress, fundingError, deployedRescueDelay,
                   contractBalance, chain, txLog>>

\* catch (fundingError): record the failure, go on to the alternative
FundingCatch(message) ==
    /\ escrowDeployment' =
          SetField(SetField(escrowDeployment, "fundingStatus", "failed"),
                   "fundingError", message)
    /\ fundingError' = message
    /\ pc' = "sendAlternativeFunding"

\* a funding update that also rewrites the amount of the immutables
FundingCompleted_RewritesAmount(record, hash) ==
    SetField(SetField(SetField(SetField(SetField(record,
        "fundingTxHash", hash),
        "fundingAmount", toString(totalFundingAmount)),
        "fundingStatus", "completed"),
        "gasUsed", toString(21000)),
        "immutables", [record.immutables EXCEPT !.amount = totalFundingAmount])

\* a funding update that records no transaction hash
FundingCompleted_NoHash(record, hash) ==
    SetField(SetField(SetField(record,
        "fundingAmount", toString(totalFundingAmount)),
        "fundingStatus", "completed"),
        "gasUsed", toString(21000))

\* the four fields written when a funding receipt has status 1 (gasUsed is
\* whatever the receipt reports; a plain transfer uses 21000)
FundingCompleted(record, hash) ==
    SetField(SetField(SetField(SetField(record,
        "fundingTxHash", hash),
        "fundingAmount", toString(totalFundingAmount)),
        "fundingStatus", "completed"),
        "gasUsed", toString(21000))

\* lines 412-419: deployerWallet.sendTransaction({to, value, gasLimit: 1000000})
SendFunding ==
    /\ pc = "sendFunding"
    /\ \/ \E m \in ErrorMessages :
             /\ FundingCatch(m)
             /\ UNCHANGED txLog
       \/ /\ txLog' = Append(txLog, [kind |-> "funding",
                                     value |-> totalFundingAmount,
                                     gasLimit |-> FundingGasLimit])
          /\ pc' = "waitFunding"
          /\ UNCHANGED <<escrowDeployment, fundingError>>
    /\ UNCHANGED <<phaseVars, eventVars, orderVars, otherAttempt, amount, safetyDeposit, escrowImmutables,
                   contractAddress, deployedRescueDelay, contractBalance, chain>>

\* lines 421-447: fundingTx.wait() and the receipt's status
WaitFunding ==
    /\ pc = "waitFunding"
    /\ \/ \* receipt with status 1
          /\ escrowDeployment' = FundingCompleted(escrowDeployment, LastTxHash(txLog))
          /\ chain' = [chain EXCEPT !.funded = @ + txLog[Len(txLog)].value]
          /\ pc' = "verifyRescueDelay"
          /\ UNCHANGED fundingError
       \/ \* receipt with another status
          /\ escrowDeployment' =
                SetField(SetField(escrowDeployment, "fundingStatus", "failed"),
                         "fundingError", Str("Transaction reverted"))
          /\ pc' = "verifyRescueDelay"
          /\ UNCHANGED <<fundingError, chain>>
       \/ \E m \in ErrorMessages, mined \in BOOLEAN :
             \* the wait throws; on a timeout the transfer may have been
             \* mined all the same
             /\ FundingCatch(m)
             /\ chain' = IF mined /\ m = Str("request timeout")
                         THEN [chain EXCEPT !.funded = @ + txLog[Len(txLog)].value]
                         ELSE chain
    /\ UNCHANGED <<phaseVars, eventVars, orderVars, otherAttempt, amount, safetyDeposit, escrowImmutables,
                   contractAddress, deployedRescueDelay, contractBalance, txLog>>

\* catch (altError): both messages in one template string
AlternativeFundingCatch(message) ==
    /\ escrowDeployment' =
          SetField(SetField(escrowDeployment, "fundingStatus", "failed"),
                   "fundingError",
                   Str("Both attempts failed: ") \o fundingError
                       \o Str(", ") \o message)
    /\ pc' = "verifyRescueDelay"

\* lines 448-456: the alternative sendTransaction with gasLimit 2000000
SendAlternativeFunding ==
    /\ pc = "sendAlternativeFunding"
    /\ \/ \E m \in ErrorMessages :
             /\ AlternativeFundingCatch(m)
             /\ UNCHANGED txLog
       \/ /\ txLog' = Append(txLog, [kind |-> "funding",
                                     value |-> totalFundingAmount,
                                     gasLimit |-> AlternativeFundingGasLimit])
          /\ pc' = "waitAlternativeFunding"
          /\ UNCHANGED escrowDeployment
    /\ UNCHANGED <<phaseVars, eventVars, orderVars, otherAttempt, amount, safetyDeposit, escrowImmutables,
                   contractAddress, fundingError, deployedRescueDelay,
                   contractBalance, chain>>

\* lines 458-476: alternativeFundingTx.wait() and the receipt's status
WaitAlternativeFunding ==
    /\ pc = "waitAlternativeFunding"
    /\ \/ /\ escrowDeployment' = FundingCompleted(escrowDeployment, LastTxHash(txLog))
          /\ chain' = [chain EXCEPT !.funded = @ + txLog[Len(txLog)].value]
          /\ pc' = "verifyRescueDelay"
       \/ /\ escrowDeployment' =
                SetField(SetField(escrowDeployment, "fundingStatus", "failed"),
                         "fundingError", Str("Both funding attempts failed"))
          /\ pc' = "verifyRescueDelay"
          /\ UNCHANGED chain
       \/ \E m \in ErrorMessages, mined \in BOOLEAN :
             /\ AlternativeFundingCatch(m)
             /\ chain' = IF mined /\ m = Str("request timeout")
                         THEN [chain EXCEPT !.funded = @ + txLog[Len(txLog)].value]
                         ELSE chain
    /\ UNCHANGED <<phaseVars, eventVars, orderVars, otherAttempt, amount, safetyDeposit, escrowImmutables,
                   contractAddress, fundingError, deployedRescueDelay,
                   contractBalance, txLog>>

\* catch (error) of the verification try
VerificationCatch(message) ==
    /\ escrowDeployment' =
          SetField(SetField(escrowDeployment, "verificationStatus", "failed"),
                   "verificationError", message)
    /\ pc' = "done"

\* lines 480-497: contract.RESCUE_DELAY(); a mismatch is only logged
VerifyRescueDelay ==
    /\ pc = "verifyRescueDelay"
    /\ \/ \E m \in ErrorMessages :
             /\ VerificationCatch(m)
             /\ UNCHANGED deployedRescueDelay
       \/ \E d \in DeployedDelays :
             /\ deployedRescueDelay' = d
             /\ pc' = "verifyBalance"
             /\ UNCHANGED escrowDeployment
    /\ UNCHANGED <<phaseVars, eventVars, orderVars, otherAttempt, amount, safetyDeposit, escrowImmutables,
                   contractAddress, fundingError, contractBalance, chain, txLog>>

\* lines 499-513: provider.getBalance(contractAddress); a shortfall is
\* only logged
VerifyBalance ==
    /\ pc = "verifyBalance"
    /\ \/ \E m \in ErrorMessages :
             /\ VerificationCatch(m)
             /\ UNCHANGED contractBalance
       \/ \E b \in Balances :
             /\ contractBalance' = b
             /\ pc' = "verifyFactory"
             /\ UNCHANGED escrowDeployment
    /\ UNCHANGED <<phaseVars, eventVars, orderVars, otherAttempt, amount, safetyDeposit, escrowImmutables,
                   contractAddress, fundingError, deployedRescueDelay, chain, txLog>>

\* lines 515-547: contract.FACTORY() decides the verification status
VerifyFactory ==
    /\ pc = "verifyFactory"
    /\ \/ \E m \in ErrorMessages :
             VerificationCatch(m)
       \/ /\ escrowDeployment' =
                SetField(SetField(SetField(escrowDeployment,
                    "verificationStatus", "verified"),
                    "contractBalance", toString(contractBalance)),
                    "deployedRescueDelay", toString(deployedRescueDelay))
          /\ pc' = "done"
    /\ UNCHANGED <<phaseVars, eventVars, orderVars, otherAttempt, amount, safetyDeposit, escrowImmutables,
                   contractAddress, fundingError, deployedRescueDelay,
                   contractBalance, chain, txLog>>

DeployNext ==
    \/ PrepareDeployment
    \/ DeployContract
    \/ WaitForDeployment
    \/ CheckFundingBalance
    \/ SendFunding
    \/ WaitFunding
    \/ SendAlternativeFunding
    \/ WaitAlternativeFunding
    \/ VerifyRescueDelay
    \/ VerifyBalance
    \/ VerifyFactory

DeploySpec == DeployInit /\ [][DeployNext]_vars

\* the same run when every gateway call eventually returns or throws: the
\* script always takes its next step
DeployLiveSpec == DeployInit /\ [][DeployNext]_vars /\ WF_vars(DeployNext)

(***************************************************************************)
(* Two runs of the deployment script for the same leg.  The script reads   *)
(* no record of an earlier or concurrent run, so the second run is         *)
(* followed only through what the first could have looked at: its          *)
(* deployment transaction and its statuses.                                *)
(***************************************************************************)
\* the other run has created its record (lines 319-329)
NewAttempt ==
    [deploymentStatus |-> "pending",
     verificationStatus |-> "undefined",
     deployments |-> 0]

AttemptsInit ==
    /\ ScriptStart
    /\ otherAttempt = NewAttempt

\* the other run's contractFactory.deploy (lines 357-375)
OtherAttemptDeploys ==
    /\ otherAttempt.deploymentStatus = "pending"
    /\ otherAttempt.deployments = 0
    /\ otherAttempt' = [otherAttempt EXCEPT !.deployments = 1]
    /\ UNCHANGED <<phaseVars, eventVars, orderVars, deployVars>>

\* the other run's waitForDeployment (lines 377-390) or its catch (549-560)
OtherAttemptDeployed ==
    /\ otherAttempt.deploymentStatus = "pending"
    /\ otherAttempt.deployments = 1
    /\ \E status \in {"deployed", "failed"} :
          otherAttempt' = [otherAttempt EXCEPT !.deploymentStatus = status]
    /\ UNCHANGED <<phaseVars, eventVars, orderVars, deployVars>>

\* the other run's Step 4 (lines 480-536)
OtherAttemptVerified ==
    /\ otherAttempt.deploymentStatus = "deployed"
    /\ otherAttempt.verificationStatus = "undefined"
    /\ \E status \in {"verified", "failed"} :
          otherAttempt' = [otherAttempt EXCEPT !.verificationStatus = status]
    /\ UNCHANGED <<phaseVars, eventVars, orderVars, deployVars>>

AttemptsNext ==
    \/ DeployNext
    \/ OtherAttemptDeploys
    \/ OtherAttemptDeployed
    \/ OtherAttemptVerified

AttemptsSpec == AttemptsInit /\ [][AttemptsNext]_vars

(***************************************************************************)
(* Event queries of query-escrow-events.js against a chain on which the    *)
(* escrow contract emits Withdrawal, EscrowCancelled and FundsRescued      *)
(* events.                                                                 *)
(***************************************************************************)
MaxEvents == 2        \* the contract emits at most MaxEvents events

\* pre-images an event can carry: the swap's secret, or another value
Secrets == {"secret", "forged"}

\* blocks in which the contract emits events, blocks at which a query runs
EventBlocks == {10, 120, 250}
QueryBlocks == {50, 100, 130, 300}

\* provider.getBlock(blockNumber).timestamp
BlockTimestamp(blockNumber) == 1000 + 12 * blockNumber

\* the arguments of an event of each kind
EventArgs(kind) ==
    CASE kind = "Withdrawal" -> { [secret |-> x] : x \in Secrets }
      [] kind = "EscrowCancelled" -> { EmptyObject }
      [] kind = "FundsRescued" ->
            { [token |-> "0x0000000000000000000000000000000000000000",
               amount |-> 1] }

EventsInit ==
    /\ PhaseIdle
    /\ DeployIdle
    /\ EventsIdle
    /\ OrderIdle

\* the escrow contract emits an event in a block after the latest query
EmitEvent ==
    /\ Len(chainEvents) < MaxEvents
    /\ \E kind \in {"Withdrawal", "EscrowCancelled", "FundsRescued"},
          b \in EventBlocks :
          /\ b > currentBlock
          /\ \A i \in DOMAIN chainEvents : chainEvents[i].blockNumber <= b
          /\ \E args \in EventArgs(kind) :
                chainEvents' = Append(chainEvents,
                    [kind |-> kind, args |-> args, blockNumber |-> b,
                     transactionHash |-> Len(chainEvents) + 1])
    /\ UNCHANGED <<phaseVars, deployVars, otherAttempt, orderVars, currentBlock, events>>

\* a query that looks back to the first block of the chain
fromBlock_WholeChain(block) == 0

\* const fromBlock = Math.max(0, currentBlock - 100)
fromBlock(block) == IF block - 100 > 0 THEN block - 100 ELSE 0

\* contract.queryFilter(filter, from, to): the events of one kind emitted
\* in blocks from..to, in chain order
RECURSIVE queryFilter(_, _, _, _)
queryFilter(log, kind, from, to) ==
    IF log = <<>> THEN <<>>
    ELSE LET event == Head(log)
             rest == queryFilter(Tail(log), kind, from, to)
         IN IF event.kind = kind /\ from <= event.blockNumber
                                 /\ event.blockNumber <= to
            THEN <<event>> \o rest
            ELSE rest

\* the entries pushed for the events of one kind
withdrawalsOf(found) ==
    [i \in DOMAIN found |->
        [secret |-> found[i].args.secret,
         blockNumber |-> found[i].blockNumber,
         timestamp |-> BlockTimestamp(found[i].blockNumber),
         transactionHash |-> found[i].transactionHash]]

cancellationsOf(found) ==
    [i \in DOMAIN found |->
        [blockNumber |-> found[i].blockNumber,
         timestamp |-> BlockTimestamp(found[i].blockNumber),
         transactionHash |-> found[i].transactionHash]]

rescuesOf(found) ==
    [i \in DOMAIN found |->
        [token |-> found[i].args.token,
         amount |-> found[i].args.amount,
         blockNumber |-> found[i].blockNumber,
         timestamp |-> BlockTimestamp(found[i].blockNumber),
         transactionHash |-> found[i].transactionHash]]

\* a query that files rescue events with the cancellations
queryContractEvents_RescueCancels(log, block) ==
    LET withdrawalEvents == queryFilter(log, "Withdrawal", fromBlock(block), block)
        cancellationEvents ==
            queryFilter(log, "EscrowCancelled", fromBlock(block), block)
        rescueEvents == queryFilter(log, "FundsRescued", fromBlock(block), block)
    IN [withdrawals |-> withdrawalsOf(withdrawalEvents),
        cancellations |-> cancellationsOf(cancellationEvents \o rescueEvents),
        rescues |-> rescuesOf(rescueEvents),
        totalEvents |-> Len(withdrawalEvents) + Len(cancellationEvents)
                            + Len(rescueEvents)]

\* queryContractEvents(contractAddress, provider)
queryContractEvents(log, block) ==
    LET withdrawalEvents == queryFilter(log, "Withdrawal", fromBlock(block), block)
        cancellationEvents ==
            queryFilter(log, "EscrowCancelled", fromBlock(block), block)
        rescueEvents == queryFilter(log, "FundsRescued", fromBlock(block), block)
    IN [withdrawals |-> withdrawalsOf(withdrawalEvents),
        cancellations |-> cancellationsOf(cancellationEvents),
        rescues |-> rescuesOf(rescueEvents),
        totalEvents |-> Len(withdrawalEvents) + Len(cancellationEvents)
                            + Len(rescueEvents)]

\* main() of query-escrow-events.js: one run of the event query at the
\* chain's current block; a gateway error is rethrown and ends the run
QueryContractEvents ==
    /\ \E block \in QueryBlocks :
          /\ block >= currentBlock
          /\ \A i \in DOMAIN chainEvents : chainEvents[i].blockNumber <= block
          /\ currentBlock' = block
          /\ \/ events' = queryContractEvents(chainEvents, block)
             \/ \E m \in ErrorMessages : events' = [error |-> m]
    /\ UNCHANGED <<phaseVars, deployVars, otherAttempt, orderVars, chainEvents>>

EventsNext ==
    \/ EmitEvent
    \/ QueryContractEvents

EventsSpec == EventsInit /\ [][EventsNext]_vars

(***************************************************************************)
(* Order creation (order-init.js, and the same lines at the head of the    *)
(* deployment script) and the order file the query script loads.           *)
(* Amounts are counted in units of 0.001 ETH and of 1 XLM.                 *)
(***************************************************************************)
DefaultMakingAmount == 2       \* 0.002 ETH
DefaultTakingAmount == 20      \* 20 XLM
DefaultSafetyDeposit == 1      \* 0.001 ETH
DefaultSrcChainId == 11155111
DefaultDstChainId == 314159
StroopsPerXlm == 10000000      \* parseUnits(x, 7)

\* an instance of an SDK class (Sdk.Address, Sdk.HashLock) wrapping text
SdkObject(class, text) == [kind |-> "instance", class |-> class, val |-> text]
\* a JavaScript array
JSArray(items) == [kind |-> "array", val |-> items]
\* a JavaScript boolean
JSBoolean(b) == [kind |-> "boolean", val |-> b]

\* values of the environment variables that hold numbers: unset, or the
\* decimal text of a number
EnvAmounts == {Undefined} \cup { toString(n) : n \in (-1)..MaxAmount }
EnvChainIds == {Undefined} \cup { toString(n) : n \in 1..2 }
EnvAddresses == {Undefined, JSText("GTAKER")}

\* parseFloat(text) and parseInt(text): the number the text spells, NaN for
\* undefined
parseFloat(text) ==
    IF text.kind = "decimal" THEN JSNumber(text.val) ELSE NaN
parseInt(text) ==
    IF text.kind = "decimal" THEN JSNumber(text.val) ELSE NaN

\* value || fallback: the fallback when the value is NaN or 0
OrElse(value, fallback) ==
    IF value.kind = "NaN" \/ (value.kind = "number" /\ value.val = 0)
    THEN JSNumber(fallback)
    ELSE value

\* parseEther(number.toString()): the amount as a bigint, sign kept
parseEther(number) == number.val
\* parseUnits(number.toString(), 7)
parseUnits7(number) == number.val * StroopsPerXlm

\* the 32 bytes a hex string spells
getBytes(hex) == "getBytes(" \o hex \o ")"
\* Sdk.HashLock.forSingleFill(secret): keccak256 of the bytes of the secret
forSingleFill(hex) == "keccak256(" \o getBytes(hex) \o ")"

\* const order = {...} (lines 74-114)
NewOrder(e) ==
    [salt |-> JSText("order.salt"),
     maker |-> SdkObject("Address", DeployerAddress),
     makingAmount |->
        toString(parseEther(OrElse(parseFloat(e.MAKING_AMOUNT_ETH),
                                   DefaultMakingAmount))),
     takingAmount |->
        toString(parseUnits7(OrElse(parseFloat(e.TAKING_AMOUNT_XLM),
                                    DefaultTakingAmount))),
     makerAsset |-> SdkObject("Address", "0x0000000000000000000000000000000000000000"),
     takerAsset |-> SdkObject("Address", "0x4444444444444444444444444444444444444444"),
     hashLock |-> SdkObject("HashLock", forSingleFill("secret")),
     timeLocks |-> [f \in DOMAIN orderTimeLocks |-> toString(orderTimeLocks[f])],
     srcChainId |-> OrElse(parseInt(e.SRC_CHAIN_ID), DefaultSrcChainId),
     dstChainId |-> OrElse(parseInt(e.DST_CHAIN_ID), DefaultDstChainId),
     srcSafetyDeposit |->
        toString(parseEther(OrElse(parseFloat(e.SAFETY_DEPOSIT_ETH),
                                   DefaultSafetyDeposit))),
     dstSafetyDeposit |->
        toString(parseEther(OrElse(parseFloat(e.SAFETY_DEPOSIT_ETH),
                                   DefaultSafetyDeposit))),
     auction |-> [initialRateBump |-> JSNumber(0),
                  points |-> JSArray(<<>>),
                  duration |-> toString(120),
                  startTime |-> toString(0)],
     whitelist |->
        JSArray(<<[address |-> SdkObject("Address", "0x5555555555555555555555555555555555555555"),
                   allowFrom |-> toString(0)]>>),
     resolvingStartTime |-> toString(0),
     nonce |-> JSText("order.nonce"),
     allowPartialFills |-> JSBoolean(FALSE),
     allowMultipleFills |-> JSBoolean(FALSE)]

\* const orderData = {...} (lines 142-158)
NewOrderData(e, now) ==
    [order |-> NewOrder(e),
     secret |-> JSText("secret"),
     maker |-> JSText(DeployerAddress),
     taker |-> JSText("0xTaker"),
     stellarTaker |-> e.STELLAR_TAKER_ADDRESS,
     srcChainId |-> OrElse(parseInt(e.SRC_CHAIN_ID), DefaultSrcChainId),
     dstChainId |-> OrElse(parseInt(e.DST_CHAIN_ID), DefaultDstChainId),
     makingAmount |->
        toString(parseEther(OrElse(parseFloat(e.MAKING_AMOUNT_ETH),
                                   DefaultMakingAmount))),
     takingAmount |->
        toString(parseUnits7(OrElse(parseFloat(e.TAKING_AMOUNT_XLM),
                                    DefaultTakingAmount))),
     makerAsset |-> JSText("0x0000000000000000000000000000000000000000"),
     takerAsset |-> JSText("0x4444444444444444444444444444444444444444"),
     timestamp |-> toISOString(now * 1000)]

\* the JSON value JSON.stringify writes for a value: a property whose value
\* is undefined is left out, an instance of a class is written as the plain
\* value its toJSON gives, NaN is written as null
RECURSIVE JSONValue(_)
JSONValue(value) ==
    IF "kind" \in DOMAIN value
    THEN CASE value.kind = "instance" -> [kind |-> "plain", val |-> value.val]
           [] value.kind = "array" ->
                 JSArray([i \in DOMAIN value.val |-> JSONValue(value.val[i])])
           [] value.kind = "NaN" -> Null
           [] OTHER -> value
    ELSE [f \in { g \in DOMAIN value : value[g] # Undefined } |->
             JSONValue(value[f])]

\* JSON.stringify(value, null, 2): the text of the file
JSONstringify(value) == [kind |-> "file", val |-> JSONValue(value)]
\* JSON.parse(text)
JSONparse(text) == text.val

\* loadOrderData(orderFilePath)
loadOrderData(file) == JSONparse(file)

Envs ==
    [MAKING_AMOUNT_ETH : EnvAmounts,
     TAKING_AMOUNT_XLM : EnvAmounts,
     SAFETY_DEPOSIT_ETH : EnvAmounts,
     SRC_CHAIN_ID : EnvChainIds,
     DST_CHAIN_ID : EnvChainIds,
     STELLAR_TAKER_ADDRESS : EnvAddresses]

OrderInit ==
    /\ PhaseIdle
    /\ DeployIdle
    /\ EventsIdle
    /\ env \in Envs
    /\ orderData = EmptyObject
    /\ orderFile = NoFile
    /\ loadedOrder = Undefined

\* the order script up to its last write of the order file (lines 21-236):
\* the record is built from the environment and written twice, unchanged
CreateOrder ==
    /\ orderData = EmptyObject
    /\ \E now \in DateNowValues :
          /\ orderData' = NewOrderData(env, now)
          /\ orderFile' = JSONstringify(orderData')
    /\ UNCHANGED <<phaseVars, deployVars, otherAttempt, eventVars, env, loadedOrder>>

\* Step 5 of the deployment script builds the escrow immutables from the
\* same secret and amounts (lines 297-316)
PrepareEscrowImmutables ==
    /\ orderData # EmptyObject
    /\ escrowImmutables = EmptyObject
    /\ \E now \in DateNowValues :
          escrowImmutables' =
             NewEscrowImmutables(now,
                parseEther(OrElse(parseFloat(env.MAKING_AMOUNT_ETH),
                                  DefaultMakingAmount)),
                parseEther(OrElse(parseFloat(env.SAFETY_DEPOSIT_ETH),
                                  DefaultSafetyDeposit)))
    /\ UNCHANGED <<phaseVars, otherAttempt, eventVars, orderVars,
                   pc, amount, safetyDeposit, escrowDeployment,
                   contractAddress, fundingError, deployedRescueDelay,
                   contractBalance, chain, txLog>>

\* main of the enhanced query script looks for the order file and loads it
\* (lines 217-222)
LoadOrderData ==
    /\ loadedOrder' = IF orderFile = NoFile THEN Null
                      ELSE loadOrderData(orderFile)
    /\ UNCHANGED <<phaseVars, deployVars, otherAttempt, eventVars, env, orderData, orderFile>>

OrderNext ==
    \/ CreateOrder
    \/ PrepareEscrowImmutables
    \/ LoadOrderData

OrderSpec == OrderInit /\ [][OrderNext]_vars

(***************************************************************************)
(* A whole run of the deployment script: it has written the order file     *)
(* (lines 21-236) and goes through Step 5, while the enhanced query script *)
(* may be run against the file at any moment.                              *)
(***************************************************************************)
\* block timestamps at which the enhanced query script is run
QueryTimes == UNION { {n + 59, n + 60, n + 700} : n \in DateNowValues }

\* an order record that already carries a deployment record
NewOrderData_WithDeployment(e, now) ==
    [order |-> NewOrder(e),
     secret |-> JSText("secret"),
     maker |-> JSText(DeployerAddress),
     taker |-> JSText("0xTaker"),
     stellarTaker |-> e.STELLAR_TAKER_ADDRESS,
     srcChainId |-> OrElse(parseInt(e.SRC_CHAIN_ID), DefaultSrcChainId),
     dstChainId |-> OrElse(parseInt(e.DST_CHAIN_ID), DefaultDstChainId),
     makingAmount |->
        toString(parseEther(OrElse(parseFloat(e.MAKING_AMOUNT_ETH),
                                   DefaultMakingAmount))),
     takingAmount |->
        toString(parseUnits7(OrElse(parseFloat(e.TAKING_AMOUNT_XLM),
                                    DefaultTakingAmount))),
     makerAsset |-> JSText("0x0000000000000000000000000000000000000000"),
     takerAsset |-> JSText("0x4444444444444444444444444444444444444444"),
     timestamp |-> toISOString(now * 1000),
     escrowDeployment |-> [deploymentStatus |-> JSText("pending")]]

\* the order record the script holds and has written when it enters Step 5
WrittenOrderData(e, now) == NewOrderData(e, now)

\* the script is about to enter Step 5, the order file is on disk
RunInit ==
    /\ PhaseIdle
    /\ EventsIdle
    /\ pc = "prepare"
    /\ amount \in Amounts
    /\ safetyDeposit \in Amounts
    /\ escrowImmutables = EmptyObject
    /\ escrowDeployment = EmptyObject
    /\ contractAddress = "None"
    /\ fundingError = <<>>
    /\ deployedRescueDelay = 0
    /\ contractBalance = 0
    /\ chain = [code |-> FALSE, rescueDelay |-> 0, funded |-> 0]
    /\ txLog = <<>>
    /\ otherAttempt = EmptyObject
    /\ env = [EnvUnset EXCEPT !.MAKING_AMOUNT_ETH = toString(amount),
                              !.SAFETY_DEPOSIT_ETH = toString(safetyDeposit)]
    /\ \E now \in DateNowValues : orderData = WrittenOrderData(env, now)
    /\ orderFile = JSONstringify(orderData)
    /\ loadedOrder = Undefined

\* orderData.escrowDeployment.immutables is there (line 221)
HasDeployedImmutables(loaded) ==
    /\ loaded # Null
    /\ "escrowDeployment" \in DOMAIN loaded
    /\ "immutables" \in DOMAIN loaded.escrowDeployment

\* main of query-escrow-enhanced.js (lines 200-287): load the latest order
\* file, take its deployed immutables or else mock timelocks built from
\* Date.now(), and determine the phase at the latest block's timestamp
MainEnhanced ==
    \E dateNow \in DateNowValues, t \in QueryTimes :
        LET loaded == IF orderFile = NoFile THEN Null
                      ELSE loadOrderData(orderFile)
            imm == IF HasDeployedImmutables(loaded)
                   THEN loaded.escrowDeployment.immutables
                   ELSE mockImmutables(dateNow)
        IN /\ t >= currentTime
           /\ loadedOrder' = loaded
           /\ immutables' = imm
           /\ currentTime' = t
           /\ phaseInfo' = determineEscrowPhaseEnhanced(imm, t)
           /\ earlierTime' = currentTime
           /\ earlierInfo' = phaseInfo
           /\ UNCHANGED <<deployVars, otherAttempt, eventVars, env, orderData, orderFile>>

RunNext ==
    \/ DeployNext
    \/ MainEnhanced

RunSpec == RunInit /\ [][RunNext]_vars

(***************************************************************************)
(* Vocabulary of the properties of the phase function.                     *)
(***************************************************************************)
T0 == immutables.timelocks.srcWithdrawal
T1 == immutables.timelocks.srcPublicWithdrawal
T2 == immutables.timelocks.srcCancellation
T3 == immutables.timelocks.srcPublicCancellation

\* the schedule ordering t0 <= t1 <= t2 <= t3 over non-negative boundaries
ValidSchedule == 0 <= T0 /\ T0 <= T1 /\ T1 <= T2 /\ T2 <= T3

Computed == "phase" \in DOMAIN phaseInfo
EarlierComputed == "phase" \in DOMAIN earlierInfo
HasActions == "allowedActions" \in DOMAIN phaseInfo

Actors == {"maker", "taker", "other"}

\* who may do what according to one entry of an allowedActions list
Grants(label) ==
    CASE label = "None - waiting for finality" -> {}
      [] label = "Maker withdraw with secret" -> {<<"maker", "withdraw-with-secret">>}
      [] label = "Taker withdraw with secret" -> {<<"taker", "withdraw-with-secret">>}
      [] label = "Anyone withdraw with secret" -> Actors \X {"withdraw-with-secret"}
      [] label = "Maker cancel" -> {<<"maker", "cancel">>}
      [] label = "Anyone cancel" -> Actors \X {"cancel"}
      [] OTHER -> {<<"unknown", label>>}

Permitted(actions) == UNION { Grants(actions[i]) : i \in DOMAIN actions }

\* the action-gating table of the specification, as (actor, action) pairs
GatingTable(phase) ==
    CASE phase = "FINALITY" -> {}
      [] phase = "PRIVATE_WITHDRAWAL" ->
            {"maker", "taker"} \X {"withdraw-with-secret"}
      [] phase = "PUBLIC_WITHDRAWAL" -> Actors \X {"withdraw-with-secret"}
      [] phase = "PRIVATE_CANCELLATION" ->
            {<<"maker", "cancel">>} \cup (Actors \X {"withdraw-with-secret"})
      [] phase = "PUBLIC_CANCELLATION" ->
            {<<"maker", "cancel">>} \cup (Actors \X {"cancel"})
                \cup (Actors \X {"withdraw-with-secret"})
      [] OTHER -> {<<"unknown", phase>>}

Rank(phase) ==
    CASE phase = "FINALITY" -> 0
      [] phase = "PRIVATE_WITHDRAWAL" -> 1
      [] phase = "PUBLIC_WITHDRAWAL" -> 2
      [] phase = "PRIVATE_CANCELLATION" -> 3
      [] phase = "PUBLIC_CANCELLATION" -> 4
      [] OTHER -> 0 - 1

\* C1: for every valid schedule and every current time the actions the
\* returned allowedActions list grants, read as (actor, action) pairs, are
\* exactly those of the action-gating table for the returned phase.
C1_ActionGating ==
    (Computed /\ HasActions /\ ValidSchedule) =>
        Permitted(phaseInfo.allowedActions) = GatingTable(phaseInfo.phase)

C1_Witness ==
    /\ Computed /\ HasActions /\ ValidSchedule
    /\ T0 < T1 /\ T1 < T2 /\ T2 < T3
    /\ phaseInfo.phase = "PRIVATE_CANCELLATION"
    /\ EarlierComputed /\ earlierInfo.phase = "PRIVATE_WITHDRAWAL"

\* C2: for every valid schedule, at a current time strictly before
\* cancellationStart (t2) no actor is granted a cancel, and a cancel by
\* anybody but the maker is granted only at or after
\* publicCancellationStart (t3).
C2_NoEarlyCancel ==
    (Computed /\ HasActions /\ ValidSchedule) =>
        /\ currentTime < T2 =>
              \A a \in Actors :
                  <<a, "cancel">> \notin Permitted(phaseInfo.allowedActions)
        /\ (\E a \in Actors \ {"maker"} :
                <<a, "cancel">> \in Permitted(phaseInfo.allowedActions))
              => currentTime >= T3

C2_Witness ==
    /\ Computed /\ HasActions /\ ValidSchedule
    /\ T1 <= currentTime /\ currentTime < T2
    /\ phaseInfo.phase = "PUBLIC_WITHDRAWAL"
    /\ <<"other", "withdraw-with-secret">> \in Permitted(phaseInfo.allowedActions)

\* C3: for every valid schedule and every current time now < t0 the phase
\* is FINALITY and the allowedActions list grants no action to any actor.
C3_Finality ==
    (Computed /\ ValidSchedule /\ currentTime < T0) =>
        /\ phaseInfo.phase = "FINALITY"
        /\ HasActions => Permitted(phaseInfo.allowedActions) = {}

C3_Witness ==
    /\ Computed /\ HasActions /\ ValidSchedule
    /\ currentTime < T0
    /\ phaseInfo.phase = "FINALITY"

\* C4: for every valid schedule and every current time with
\* t0 <= now < t1 the phase is PRIVATE_WITHDRAWAL.
C4_PrivateWithdrawal ==
    (Computed /\ ValidSchedule /\ T0 <= currentTime /\ currentTime < T1) =>
        phaseInfo.phase = "PRIVATE_WITHDRAWAL"

C4_Witness ==
    /\ Computed /\ ~HasActions /\ ValidSchedule
    /\ T0 < currentTime /\ currentTime < T1
    /\ phaseInfo.phase = "PRIVATE_WITHDRAWAL"

\* C5: for every valid schedule and every current time now >= t3 the phase
\* is PUBLIC_CANCELLATION, timeRemaining is the text 'No time limit' and not
\* a number, nextPhaseTime is the text 'N/A' and not a time, and once a
\* query at or after t3 has been answered every later query still answers
\* PUBLIC_CANCELLATION.
C5_PublicCancellation ==
    /\ (Computed /\ ValidSchedule /\ currentTime >= T3) =>
          /\ phaseInfo.phase = "PUBLIC_CANCELLATION"
          /\ phaseInfo.timeRemaining = JSText("No time limit")
          /\ phaseInfo.timeRemaining.kind # "number"
          /\ phaseInfo.nextPhaseTime = JSText("N/A")
          /\ phaseInfo.nextPhaseTime.kind # "isodate"
    /\ (Computed /\ EarlierComputed /\ ValidSchedule /\ earlierTime >= T3) =>
          /\ earlierInfo.phase = "PUBLIC_CANCELLATION"
          /\ phaseInfo.phase = "PUBLIC_CANCELLATION"

C5_Witness ==
    /\ Computed /\ EarlierComputed /\ ValidSchedule
    /\ T2 < T3
    /\ earlierTime = T3 /\ currentTime > earlierTime
    /\ phaseInfo.phase = "PUBLIC_CANCELLATION"

\* C6 as stated: for every valid schedule, equal adjacent boundaries
\* included, now = t0 yields PRIVATE_WITHDRAWAL, now = t1 yields
\* PUBLIC_WITHDRAWAL, now = t2 yields PRIVATE_CANCELLATION and now = t3
\* yields PUBLIC_CANCELLATION.
C6_BoundaryStartsPhase ==
    (Computed /\ ValidSchedule) =>
        /\ currentTime = T0 => phaseInfo.phase = "PRIVATE_WITHDRAWAL"
        /\ currentTime = T1 => phaseInfo.phase = "PUBLIC_WITHDRAWAL"
        /\ currentTime = T2 => phaseInfo.phase = "PRIVATE_CANCELLATION"
        /\ currentTime = T3 => phaseInfo.phase = "PUBLIC_CANCELLATION"

\* C6 amended: for every valid schedule a current time equal to a boundary
\* belongs to the phase started by the last boundary equal to it: now = t0
\* yields PRIVATE_WITHDRAWAL when t0 < t1, now = t1 yields PUBLIC_WITHDRAWAL
\* when t1 < t2, now = t2 yields PRIVATE_CANCELLATION when t2 < t3, and
\* now = t3 always yields PUBLIC_CANCELLATION.
C6_BoundaryStartsLastPhase ==
    (Computed /\ ValidSchedule) =>
        /\ (currentTime = T0 /\ T0 < T1) => phaseInfo.phase = "PRIVATE_WITHDRAWAL"
        /\ (currentTime = T1 /\ T1 < T2) => phaseInfo.phase = "PUBLIC_WITHDRAWAL"
        /\ (currentTime = T2 /\ T2 < T3) => phaseInfo.phase = "PRIVATE_CANCELLATION"
        /\ currentTime = T3 => phaseInfo.phase = "PUBLIC_CANCELLATION"

C6_Witness ==
    /\ Computed /\ ValidSchedule
    /\ T0 < T1 /\ T1 < T2
    /\ currentTime = T1
    /\ phaseInfo.phase = "PUBLIC_WITHDRAWAL"

\* C7: for a fixed valid schedule and two queries at times now1 <= now2 the
\* phase returned at now2 is the same as or later than the phase returned
\* at now1 in the order FINALITY < PRIVATE_WITHDRAWAL < PUBLIC_WITHDRAWAL <
\* PRIVATE_CANCELLATION < PUBLIC_CANCELLATION.
C7_Monotonic ==
    (Computed /\ EarlierComputed /\ ValidSchedule) =>
        /\ earlierTime <= currentTime
        /\ Rank(earlierInfo.phase) >= 0
        /\ Rank(earlierInfo.phase) <= Rank(phaseInfo.phase)

C7_Witness ==
    /\ Computed /\ EarlierComputed /\ ValidSchedule
    /\ earlierTime < currentTime
    /\ earlierInfo.phase = "PUBLIC_WITHDRAWAL"
    /\ phaseInfo.phase = "PUBLIC_CANCELLATION"

\* the boundary that ends a non-terminal phase, and the phase after it
NextBoundary(phase) ==
    CASE phase = "FINALITY" -> T0
      [] phase = "PRIVATE_WITHDRAWAL" -> T1
      [] phase = "PUBLIC_WITHDRAWAL" -> T2
      [] phase = "PRIVATE_CANCELLATION" -> T3

Successor(phase) ==
    CASE phase = "FINALITY" -> "PRIVATE_WITHDRAWAL"
      [] phase = "PRIVATE_WITHDRAWAL" -> "PUBLIC_WITHDRAWAL"
      [] phase = "PUBLIC_WITHDRAWAL" -> "PRIVATE_CANCELLATION"
      [] phase = "PRIVATE_CANCELLATION" -> "PUBLIC_CANCELLATION"

InList(x, list) == \E i \in DOMAIN list : list[i] = x

\* C8: in every non-terminal phase timeRemaining is the absolute time of the
\* next boundary minus now, nextPhase is the immediate successor phase and
\* nextPhaseTime is the time of that boundary; and for the schedule built at
\* epoch 1000 with offsets 60, 120, 300, 600: now = 1000 gives FINALITY with
\* timeRemaining 60, now = 1060 gives PRIVATE_WITHDRAWAL with timeRemaining
\* 60, and now = 1700 gives PUBLIC_CANCELLATION whose allowed actions
\* include anyone-cancel and anyone-withdraw-with-secret.
C8_TimeRemaining ==
    /\ (Computed /\ phaseInfo.phase # "PUBLIC_CANCELLATION") =>
          /\ phaseInfo.timeRemaining =
                JSNumber(NextBoundary(phaseInfo.phase) - currentTime)
          /\ phaseInfo.nextPhase = Successor(phaseInfo.phase)
          /\ phaseInfo.nextPhaseTime =
                toISOString(NextBoundary(phaseInfo.phase) * 1000)
    /\ (Computed /\ immutables = mockImmutables(1000)) =>
          /\ currentTime = 1000 =>
                /\ phaseInfo.phase = "FINALITY"
                /\ phaseInfo.timeRemaining = JSNumber(60)
          /\ currentTime = 1060 =>
                /\ phaseInfo.phase = "PRIVATE_WITHDRAWAL"
                /\ phaseInfo.timeRemaining = JSNumber(60)
          /\ currentTime = 1700 =>
                /\ phaseInfo.phase = "PUBLIC_CANCELLATION"
                /\ HasActions =>
                      /\ InList("Anyone cancel", phaseInfo.allowedActions)
                      /\ InList("Anyone withdraw with secret",
                                phaseInfo.allowedActions)

C8_Witness ==
    /\ Computed /\ EarlierComputed /\ HasActions
    /\ immutables = mockImmutables(1000)
    /\ earlierTime = 1060
    /\ earlierInfo.timeRemaining = JSNumber(60)
    /\ currentTime = 1700
    /\ phaseInfo.phase = "PUBLIC_CANCELLATION"

\* C9 as stated: a timelock schedule whose boundaries violate
\* t0 <= t1 <= t2 <= t3 is rejected at construction, so no phase is ever
\* computed for it.
C9_InvalidScheduleRejected ==
    Computed => ValidSchedule

(***************************************************************************)
(* Vocabulary of the properties of the deployment run.                     *)
(***************************************************************************)
deploymentStatus == GetField(escrowDeployment, "deploymentStatus")
fundingStatus == GetField(escrowDeployment, "fundingStatus")
verificationStatus == GetField(escrowDeployment, "verificationStatus")

FundingSubmitted == \E i \in DOMAIN txLog : txLog[i].kind = "funding"
VerificationBegun ==
    \/ pc \in {"verifyRescueDelay", "verifyBalance", "verifyFactory"}
    \/ verificationStatus # "undefined"

\* C10 as stated: within one leg the lifecycle is strictly sequential: no
\* funding transaction is submitted unless deployment succeeded, and the
\* verification step is never begun, and verificationStatus never becomes
\* 'verified', unless funding has completed.
C10_SequentialLifecycle ==
    /\ FundingSubmitted => deploymentStatus = "deployed"
    /\ VerificationBegun => fundingStatus = "completed"
    /\ verificationStatus = "verified" => fundingStatus = "completed"

(***************************************************************************)
(* Funding and verification properties of the deployment script.           *)
(***************************************************************************)
\* positions in txLog of the transactions of one kind
Transactions(kind) == { i \in DOMAIN txLog : txLog[i].kind = kind }

\* lines 503-513: what Step 4 reports about the balance it has read
balanceCheck(status, balance, total) ==
    IF status = "completed"
    THEN IF balance >= total
         THEN "Contract balance verified correctly"
         ELSE "Contract balance insufficient!"
    ELSE "Contract balance check completed"

\* the contract balance has been read and the FACTORY() call is next
BalanceRead == pc = "verifyFactory"

\* C11: every funding transaction (first attempt and retry) transfers
\* exactly amount + safetyDeposit, and a funded balance lower or higher than
\* that sum is flagged, not accepted as correctly funded.
C11_ExactFunding ==
    /\ \A i \in Transactions("funding") : txLog[i].value = amount + safetyDeposit
    /\ (BalanceRead /\ fundingStatus = "completed"
            /\ contractBalance # amount + safetyDeposit)
          => balanceCheck(fundingStatus, contractBalance, totalFundingAmount)
                = "Contract balance insufficient!"

\* C12: verification never ends 'verified' when the RESCUE_DELAY read back
\* differs from the deployed parameter or the contract balance differs from
\* amount + safetyDeposit.
C12_NoDivergentVerified ==
    verificationStatus = "verified"
       => /\ deployedRescueDelay = rescueDelay
          /\ contractBalance = amount + safetyDeposit

\* error messages of transient gateway failures; a revert is not transient
TransientErrors == {Str("request timeout")}

\* the alternative funding attempt has been entered
RetryTriggered == pc \in {"sendAlternativeFunding", "waitAlternativeFunding"}

\* C13: at most two funding transactions are submitted, the second with a
\* strictly higher gas limit than the first, and the retry is entered only
\* after a transient gateway error, never after a reverted transaction.
C13_BoundedRetry ==
    /\ Cardinality(Transactions("funding")) <= 2
    /\ \A i, j \in Transactions("funding") :
          i < j => txLog[j].gasLimit > txLog[i].gasLimit
    /\ RetryTriggered => fundingError \in TransientErrors

\* the record of a failed deployment: reason recorded, one deployment
\* transaction at most, nothing funded, nothing verified
FailedDeploymentRecord ==
    /\ "deploymentError" \in DOMAIN escrowDeployment
    /\ Cardinality(Transactions("deployment")) <= 1
    /\ Transactions("funding") = {}
    /\ fundingStatus = "undefined"
    /\ verificationStatus = "undefined"
    /\ pc = "done"

\* C14: when deployment fails, deploymentStatus becomes 'failed' with the
\* reason recorded, at most one deployment transaction was submitted, and
\* the script takes no further step (no funding, no verification).
C14_DeploymentFailure ==
    [][/\ deploymentStatus' = "failed" => FailedDeploymentRecord'
       /\ deploymentStatus = "failed" => UNCHANGED vars]_vars

\* a deployment transaction was submitted and the deployment then failed
C14_Witness ==
    /\ deploymentStatus = "failed"
    /\ Cardinality(Transactions("deployment")) = 1

\* some lifecycle status of the leg is 'failed'
AnyFailed ==
    \/ deploymentStatus = "failed"
    \/ fundingStatus = "failed"
    \/ verificationStatus = "failed"

\* C15: 'failed' is terminal: once a lifecycle status is 'failed' no status
\* changes any more and no further gateway call is made for the leg.
C15_FailedTerminal ==
    [][AnyFailed => UNCHANGED vars]_vars

(***************************************************************************)
(* Properties of two runs for the same leg.                                *)
(***************************************************************************)
\* C16: of two concurrent deployment attempts for one leg, never both end
\* 'deployed', and between them at most one deployment transaction is
\* submitted (the later attempt observes the earlier one and submits none).
C16_SingleDeployment ==
    /\ ~(deploymentStatus = "deployed" /\ otherAttempt.deploymentStatus = "deployed")
    /\ Cardinality(Transactions("deployment")) + otherAttempt.deployments <= 1

\* the leg has reached a terminal record in the other run
LegTerminal ==
    \/ otherAttempt.verificationStatus \in {"verified", "failed"}
    \/ otherAttempt.deploymentStatus = "failed"

\* C17: advancing a leg that is already 'verified' or 'failed' returns the
\* identical record and makes no gateway call: a run started on a terminal
\* leg ends at once, with the statuses the leg already had and without
\* having submitted anything.
C17_IdempotentAdvance ==
    [][(LegTerminal /\ pc = "prepare" /\ pc' # "prepare")
          => /\ pc' = "done"
             /\ txLog' = <<>>
             /\ GetField(escrowDeployment', "deploymentStatus")
                   = otherAttempt.deploymentStatus
             /\ GetField(escrowDeployment', "verificationStatus")
                   = otherAttempt.verificationStatus]_vars

(***************************************************************************)
(* Source and destination leg of one swap.                                 *)
(***************************************************************************)
\* the timelocks carry the destination leg's boundaries too
HasDestination == "dstCancellation" \in DOMAIN immutables.timelocks

\* the phase just computed for the source leg lets somebody withdraw
SourceWithdrawalAllowed ==
    /\ Computed
    /\ HasActions
    /\ \E a \in Actors :
          <<a, "withdraw-with-secret">> \in Permitted(phaseInfo.allowedActions)

\* C18: with both legs deployed at one epoch and the configured offsets,
\* whenever a withdrawal is allowed on the source leg the destination leg's
\* cancellation window has not opened yet.
C18_CrossLegConsistency ==
    (HasDestination /\ SourceWithdrawalAllowed)
       => currentTime < immutables.timelocks.dstCancellation

(***************************************************************************)
(* Properties of the event query.                                          *)
(***************************************************************************)
\* the query returned its lists (it did not end in an error)
EventsReturned == "withdrawals" \in DOMAIN events

\* C19: events holding both a withdrawal and a cancellation of one escrow
\* give a TerminalStateConflict error: they are never returned as an
\* accepted result.
C19_ConflictDetected ==
    EventsReturned
       => ~(Len(events.withdrawals) > 0 /\ Len(events.cancellations) > 0)

\* hashOfSecret of the swap: the hashlock of its immutables
hashOfSecret == keccak256("secret")

\* C20: a withdrawal event whose secret does not hash to the swap's
\* hashOfSecret is never recorded among the withdrawals: it is surfaced as
\* a ProtocolViolation error.
C20_ForgedSecretRejected ==
    EventsReturned
       => \A i \in DOMAIN events.withdrawals :
             keccak256(events.withdrawals[i].secret) = hashOfSecret

(***************************************************************************)
(* Further properties of the phase function.                               *)
(***************************************************************************)
FivePhases ==
    {"FINALITY", "PRIVATE_WITHDRAWAL", "PUBLIC_WITHDRAWAL",
     "PRIVATE_CANCELLATION", "PUBLIC_CANCELLATION"}

\* C24: for every input the phase returned is one of the five phases;
\* EXPIRED and DEPLOYED are never the current phase, and EXPIRED is the
\* next phase of PUBLIC_CANCELLATION and of no other phase.
C24_FivePhases ==
    Computed =>
       /\ phaseInfo.phase \in FivePhases
       /\ phaseInfo.nextPhase # "DEPLOYED"
       /\ phaseInfo.nextPhase = "EXPIRED" <=> phaseInfo.phase = "PUBLIC_CANCELLATION"

\* the terminal phase was returned for a schedule that is not ordered
C24_Witness ==
    /\ Computed
    /\ ~ValidSchedule
    /\ phaseInfo.phase = "PUBLIC_CANCELLATION"
    /\ phaseInfo.nextPhase = "EXPIRED"

\* C27 as stated: in every timelock set the program constructs each
\* destination boundary is no later than the corresponding source boundary
\* and destination cancellation is strictly earlier than source cancellation.
C27_DestinationTighter ==
    HasDestination =>
       /\ immutables.timelocks.dstWithdrawal <= T0
       /\ immutables.timelocks.dstPublicWithdrawal <= T1
       /\ immutables.timelocks.dstCancellation < T2

\* destination boundaries tried in place of the ones given
DestinationChoices == {<<0, 0, 0>>, <<MaxTime, MaxTime, MaxTime>>, <<100, 101, 2000>>}

\* the same source boundaries with other destination boundaries
WithDestination(imm, d) ==
    [timelocks |->
        [srcWithdrawal |-> imm.timelocks.srcWithdrawal,
         srcPublicWithdrawal |-> imm.timelocks.srcPublicWithdrawal,
         srcCancellation |-> imm.timelocks.srcCancellation,
         srcPublicCancellation |-> imm.timelocks.srcPublicCancellation,
         dstWithdrawal |-> d[1],
         dstPublicWithdrawal |-> d[2],
         dstCancellation |-> d[3]]]

\* C29: two timelock sets that agree on the four source boundaries and
\* differ in destination boundaries give, at the same time, identical
\* results in every copy of the phase function.
C29_DestinationIndependent ==
    Computed =>
       \A d \in DestinationChoices :
          LET other == WithDestination(immutables, d) IN
          /\ determineEscrowPhase(other, currentTime)
                = determineEscrowPhase(immutables, currentTime)
          /\ determineEscrowPhaseEnhanced(other, currentTime)
                = determineEscrowPhaseEnhanced(immutables, currentTime)
          /\ determineEscrowPhaseBasic(other, currentTime)
                = determineEscrowPhaseBasic(immutables, currentTime)
          /\ phaseInfo \in {determineEscrowPhase(other, currentTime),
                            determineEscrowPhaseEnhanced(other, currentTime),
                            determineEscrowPhaseBasic(other, currentTime)}

\* a phase was computed between the destination and the source boundary
\* of a schedule that carries destination boundaries
C29_Witness ==
    /\ Computed
    /\ HasDestination
    /\ immutables.timelocks.dstPublicWithdrawal <= currentTime
    /\ currentTime < T1
    /\ phaseInfo.phase = "PRIVATE_WITHDRAWAL"

\* the fields all three copies return
CoreFields(r) ==
    [phase |-> r.phase, timeRemaining |-> r.timeRemaining,
     nextPhase |-> r.nextPhase, nextPhaseTime |-> r.nextPhaseTime]

\* C30: the three copies of the phase function return the same phase,
\* timeRemaining, nextPhase and nextPhaseTime for every timelock set and
\* time, and the two copies with allowed actions return the same list.
C30_CopiesAgree ==
    Computed =>
       LET events3 == determineEscrowPhase(immutables, currentTime)
           enhanced == determineEscrowPhaseEnhanced(immutables, currentTime)
           basic == determineEscrowPhaseBasic(immutables, currentTime)
       IN /\ CoreFields(events3) = CoreFields(enhanced)
          /\ CoreFields(enhanced) = CoreFields(basic)
          /\ events3.allowedActions = enhanced.allowedActions
          /\ CoreFields(phaseInfo) = CoreFields(basic)

\* the basic copy, which returns no allowed actions, computed the phase
C30_Witness ==
    /\ Computed
    /\ ~HasActions
    /\ phaseInfo.phase = "FINALITY"

(***************************************************************************)
(* Frame properties.                                                       *)
(***************************************************************************)
\* the event log without its rescue events
RECURSIVE WithoutRescues(_)
WithoutRescues(log) ==
    IF log = <<>> THEN <<>>
    ELSE IF Head(log).kind = "FundsRescued"
         THEN WithoutRescues(Tail(log))
         ELSE <<Head(log)>> \o WithoutRescues(Tail(log))

\* the rescue events a query at the given block sees
RescuesSeen(log, block) == queryFilter(log, "FundsRescued", fromBlock(block), block)

\* C21: rescue events are only appended to the history: the withdrawals
\* and cancellations returned are those of the same log without its rescue
\* events, every rescue event in range is listed among the rescues, and no
\* lifecycle status or computed phase is touched.
C21_RescueFrame ==
    EventsReturned =>
       LET without == queryContractEvents(WithoutRescues(chainEvents), currentBlock)
       IN /\ events.withdrawals = without.withdrawals
          /\ events.cancellations = without.cancellations
          /\ Len(events.rescues) = Len(RescuesSeen(chainEvents, currentBlock))
          /\ escrowDeployment = EmptyObject
          /\ phaseInfo = EmptyObject

\* a query returned a rescue event next to a withdrawal
C21_Witness ==
    /\ EventsReturned
    /\ Len(events.rescues) > 0
    /\ Len(events.withdrawals) > 0
    /\ Len(events.cancellations) = 0

\* the immutables of Step 5 have been built
ImmutablesBuilt == "timelocks" \in DOMAIN escrowImmutables

\* C28: the escrow immutables are never modified after construction: every
\* later step leaves escrowImmutables, and the copy held in the deployment
\* record, as they were built.
C28_ImmutablesFrame ==
    [][/\ ImmutablesBuilt' => escrowDeployment'.immutables = escrowImmutables'
       /\ ImmutablesBuilt => escrowImmutables' = escrowImmutables]_vars

\* funding and verification both went through on the built immutables
C28_Witness ==
    /\ pc = "done"
    /\ fundingStatus = "completed"
    /\ verificationStatus = "verified"
    /\ escrowDeployment.immutables = escrowImmutables
    /\ Len(txLog) = 3

\* the text carries the message (texts are sequences of fragments)
Carries(text, message) == \E i \in DOMAIN text : <<text[i]>> = message

\* both funding attempts were made and the leg ended with funding failed
BothAttemptsFailed ==
    /\ fundingError # <<>>
    /\ pc \in {"verifyRescueDelay", "verifyBalance", "verifyFactory", "done"}
    /\ fundingStatus = "failed"

\* C25: when the first funding attempt and the retry both fail, whether the
\* retry throws or returns a failed receipt, fundingStatus is 'failed' and
\* the recorded error carries the messages of both attempts.
C25_BothMessages ==
    /\ (fundingError # <<>> /\ pc \in {"verifyRescueDelay", "verifyBalance",
                                       "verifyFactory", "done"})
          => fundingStatus \in {"failed", "completed"}
    /\ BothAttemptsFailed
          => Carries(GetField(escrowDeployment, "fundingError"), fundingError)
(***************************************************************************)
(* Properties of order creation and of the order file.                     *)
(***************************************************************************)
\* an order record exists, in memory or in the order file
OrderProduced == orderData # EmptyObject \/ orderFile # NoFile

\* C22: order creation is rejected, and no order record is produced or
\* persisted, when the making amount, the taking amount or the safety
\* deposit is non-positive or the source and destination chain ids are
\* equal: every record that exists has positive amounts and two distinct
\* chain ids.
C22_InvalidOrderRejected ==
    OrderProduced =>
       /\ orderData.order.makingAmount.val > 0
       /\ orderData.order.takingAmount.val > 0
       /\ orderData.order.srcSafetyDeposit.val > 0
       /\ orderData.order.dstSafetyDeposit.val > 0
       /\ orderData.order.srcChainId # orderData.order.dstChainId

\* loadOrderData returned a record
OrderLoaded == loadedOrder \notin {Undefined, Null}

\* C23: the record loaded back from the order file is identical to the
\* record the writing script holds in memory: no field dropped, none
\* changed in type, every amount of unchanged value.
C23_RoundTrip == OrderLoaded => loadedOrder = orderData

\* C26: the hashlock of the escrow immutables built for deployment is the
\* same digest as the hashLock of the order.
C26_SharedHashlock ==
    (orderData # EmptyObject /\ escrowImmutables # EmptyObject)
       => escrowImmutables.hashlock = orderData.order.hashLock.val
(***************************************************************************)
(* Properties of a query run against the order file of a deployment run.   *)
(***************************************************************************)
\* the enhanced query script has reported a phase
QueryReported == loadedOrder # Undefined /\ phaseInfo # EmptyObject

\* C31: for a leg without a deployment record (the query found no deployed
\* immutables) none of the five timelock phases and no allowed action is
\* reported.
C31_NoRecordNoPhase ==
    (QueryReported /\ ~HasDeployedImmutables(loadedOrder))
       => /\ phaseInfo.phase \notin FivePhases
          /\ phaseInfo.allowedActions = <<>>
(***************************************************************************)
(* Consistency of the deployment record.                                   *)
(***************************************************************************)
\* the record holds the address waitForDeployment returned, not 'TBD'
RealAddressRecorded ==
    /\ contractAddress = AddressOfEscrow
    /\ GetField(escrowDeployment, "contractAddress") = AddressOfEscrow

\* C32: at every point of a deployment run, fundingStatus 'completed' goes
\* with deploymentStatus 'deployed', a recorded hash of a funding
\* transaction and a recorded fundingAmount of amount + safetyDeposit; and
\* verificationStatus is set only when a real contract address is recorded.
C32_RecordConsistent ==
    /\ fundingStatus = "completed"
          => /\ deploymentStatus = "deployed"
             /\ "fundingTxHash" \in DOMAIN escrowDeployment
             /\ escrowDeployment.fundingTxHash \in Transactions("funding")
             /\ "fundingAmount" \in DOMAIN escrowDeployment
             /\ escrowDeployment.fundingAmount = toString(amount + safetyDeposit)
    /\ verificationStatus # "undefined"
          => /\ verificationStatus \in {"verified", "failed"}
             /\ RealAddressRecorded

C32_Witness ==
    /\ fundingStatus = "completed"
    /\ verificationStatus = "verified"
    /\ fundingError # <<>>
\* C33: once deploymentStatus is 'deployed' and the contract address is
\* recorded, no later step of the run (balance read, funding, funding
\* retry, verification), successful or failing, changes deploymentStatus or
\* the contract address.
C33_DeployedFrame ==
    [][deploymentStatus = "deployed"
          => /\ deploymentStatus' = "deployed"
             /\ contractAddress' = contractAddress
             /\ GetField(escrowDeployment', "contractAddress")
                   = GetField(escrowDeployment, "contractAddress")]_vars
(***************************************************************************)
(* The order file during and after a deployment run.                       *)
(***************************************************************************)
\* C34: the order file is written only before deployment starts: no step
\* of deployment, funding or verification, whatever its outcome, changes
\* the file; the file holds no escrowDeployment record; and a query run
\* that loads it finds no deployed immutables.
C34_OrderFileFrozen ==
    [][/\ orderFile' = orderFile
       /\ "escrowDeployment" \notin DOMAIN JSONparse(orderFile')
       /\ loadedOrder' # Undefined => ~HasDeployedImmutables(loadedOrder')]_vars

C34_Witness ==
    /\ pc = "done"
    /\ verificationStatus = "verified"
    /\ QueryReported
    /\ loadedOrder = JSONparse(orderFile)
    /\ immutables = mockImmutables(1000)
(***************************************************************************)
(* The phase function on arbitrary timelock sets.                          *)
(***************************************************************************)
\* the phases in the order of the boundaries that end them
PhaseOrder ==
    <<"FINALITY", "PRIVATE_WITHDRAWAL", "PUBLIC_WITHDRAWAL", "PRIVATE_CANCELLATION">>

\* positions, in the order srcWithdrawal, srcPublicWithdrawal,
\* srcCancellation, srcPublicCancellation, of the boundaries strictly
\* greater than now
OpenBoundaries ==
    { i \in 1..4 : currentTime < <<T0, T1, T2, T3>>[i] }

\* C35: for an arbitrary timelock set, ordered or not, the phase returned
\* is the one ended by the first boundary, in the fixed order, that is
\* strictly greater than now, PUBLIC_CANCELLATION if there is none; and
\* timeRemaining is a strictly positive number in every non-terminal
\* result.
C35_FirstOpenBoundary ==
    Computed =>
       /\ phaseInfo.phase =
             IF OpenBoundaries = {} THEN "PUBLIC_CANCELLATION"
             ELSE PhaseOrder[CHOOSE i \in OpenBoundaries :
                                \A j \in OpenBoundaries : i <= j]
       /\ phaseInfo.phase # "PUBLIC_CANCELLATION"
             => /\ phaseInfo.timeRemaining.kind = "number"
                /\ phaseInfo.timeRemaining.val > 0

C35_Witness ==
    /\ Computed /\ ~ValidSchedule
    /\ T1 < T0 /\ T3 < T2
    /\ T1 <= currentTime /\ currentTime < T0
    /\ T3 <= currentTime
    /\ phaseInfo.phase = "FINALITY"
    /\ phaseInfo.timeRemaining.val > 0
(***************************************************************************)
(* The block range of an event query.                                      *)
(***************************************************************************)
\* transaction hashes of the entries of the three returned lists
ReturnedHashes ==
    { events.withdrawals[i].transactionHash : i \in DOMAIN events.withdrawals }
       \cup { events.cancellations[i].transactionHash : i \in DOMAIN events.cancellations }
       \cup { events.rescues[i].transactionHash : i \in DOMAIN events.rescues }

\* C36: an event query covers the block range
\* [max(0, currentBlock - 100), currentBlock] and nothing else: fromBlock
\* is never negative, never exceeds currentBlock and is at most 100 blocks
\* behind it; the events returned are exactly those emitted in that range,
\* so an event emitted more than 100 blocks before the query is not
\* returned; and totalEvents is the sum of the lengths of the three lists.
C36_BlockRange ==
    EventsReturned =>
       /\ fromBlock(currentBlock) >= 0
       /\ fromBlock(currentBlock) <= currentBlock
       /\ currentBlock - fromBlock(currentBlock) <= 100
       /\ ReturnedHashes =
             { chainEvents[i].transactionHash :
                 i \in { j \in DOMAIN chainEvents :
                           /\ chainEvents[j].blockNumber >= currentBlock - 100
                           /\ chainEvents[j].blockNumber <= currentBlock } }
       /\ events.totalEvents = Len(events.withdrawals)
                                  + Len(events.cancellations)
                                  + Len(events.rescues)

\* a query that returned one event and left out one emitted more than 100
\* blocks before it
C36_Witness ==
    /\ EventsReturned
    /\ events.totalEvents = 1
    /\ \E i \in DOMAIN chainEvents :
          chainEvents[i].blockNumber < currentBlock - 100
(***************************************************************************)
(* Termination of the deployment script.                                   *)
(***************************************************************************)
\* the script got as far as the deployment call: the record was created
DeploymentReached == pc # "prepare" /\ escrowDeployment # EmptyObject

\* C37: when every gateway call eventually returns or throws, every run of
\* the deployment script terminates, and if the deployment call was reached
\* it terminates with deploymentStatus 'deployed' or 'failed', never
\* 'pending', and with fundingStatus unset, 'completed' or 'failed'.
C37_Terminates ==
    <>[](/\ pc = "done"
         /\ DeploymentReached
               => /\ deploymentStatus \in {"deployed", "failed"}
                  /\ fundingStatus \in {"undefined", "completed", "failed"})

\* a finished run that deployed and did not fund (balance too low)
C37_Witness ==
    /\ pc = "done"
    /\ DeploymentReached
    /\ deploymentStatus = "deployed"
    /\ fundingStatus = "undefined"
    /\ verificationStatus = "verified"

====
